---- MODULE Spec2Model ----
(***************************************************************************)
(* A model of the formatting code of the Matrix-Discord bridge             *)
(* (escapeDiscordMarkdown, the escapeFixer pass, pillConverter, the        *)
(* matrixHTMLParser converters, Portal.parseMatrixHTML) and of the login   *)
(* command fnLogin.                                                        *)
(*                                                                         *)
(* A Go string is a sequence of one-character strings.  Offsets into a     *)
(* string are Go's: 0-based, a slice s[a:b] is half-open.                  *)
(***************************************************************************)
EXTENDS Integers, Sequences, FiniteSets, TLC

VARIABLES
    text,        \* inbound text: the argument of TextConverter / MonospaceConverter
    tpc,         \* position of the inbound text conversion
    res,         \* the string the conversion holds at this position
    span,        \* the argument MonospaceConverter was called with
    submatches,  \* escapeDiscordMarkdown's local: the URL matches of its argument
    ftext,       \* renderDiscordMarkdown's argument
    fpc,         \* position of renderDiscordMarkdown
    fixed,       \* renderDiscordMarkdown's text after the escapeFixer pass
    aliasDir,    \* what Bot.ResolveAlias answers for the alias
    portalDir,   \* room id -> the portal GetPortalByMXID finds, or Nil
    messageDir,  \* the message DB.Message.GetByMXID finds for the known event, or Nil
    puppetDir,   \* user id -> the Discord id ParsePuppetMXID parses, or Nil
    userDir,     \* user id -> the user GetUserByMXID finds, or Nil
    displayname, \* pillConverter's arguments
    mxid,
    eventID,
    ppc,         \* position of pillConverter
    ret,         \* what pillConverter returned, or that it panicked
    content,     \* parseMatrixHTML's argument: Format, FormattedBody, Body
    hpc,         \* position of parseMatrixHTML
    markup,      \* what parseMatrixHTML returned
    loggedIn,    \* ce.User.IsLoggedIn()
    DiscordID,   \* ce.User.DiscordID
    DiscordID0,  \* ce.User.DiscordID when the command arrived
    lpc,         \* position of fnLogin
    gpc,         \* position of the goroutine fnLogin starts
    qrChan,      \* "open", or "closed"
    doneChan,    \* "open", or "closed" once the remote auth client is done
    qrCodeEvent, \* fnLogin's local, written by the goroutine
    redacted,    \* whether fnLogin redacted the QR code event
    user,        \* client.Result(): the user
    err,         \* fnLogin's err: "nil" or the error last assigned
    replies      \* what ce.Reply sent, in order

textVars == <<text, tpc, res, span, submatches>>
fixVars == <<ftext, fpc, fixed>>
pillVars == <<aliasDir, portalDir, messageDir, puppetDir, userDir, displayname, mxid, eventID, ppc, ret>>
parseVars == <<content, hpc, markup>>
loginVars == <<loggedIn, DiscordID, DiscordID0, lpc, gpc, qrChan, doneChan, qrCodeEvent, redacted,
               user, err, replies>>
vars == <<textVars, fixVars, pillVars, parseVars, loginVars>>

-----------------------------------------------------------------------------
(* Bounds of the model. *)

MaxPieces == 4
MaxTokens == 3
MaxSpanLen == 4
MaxFixLen == 7
MaxNodes == 2

-----------------------------------------------------------------------------
(* Strings. *)

Slice(s, a, b) == SubSeq(s, a + 1, b)

RECURSIVE Concat(_)
Concat(ss) == IF ss = <<>> THEN <<>> ELSE Head(ss) \o Concat(Tail(ss))

SetMax(S) == CHOOSE m \in S : \A x \in S : x <= m

Http == <<"h", "t", "t", "p", ":", "/", "/">>
Https == <<"h", "t", "t", "p", "s", ":", "/", "/">>

\* U+0060, which a TLA+ string cannot hold
Backtick == "U+0060"

\* \p{Zs}: the space separators (SPACE, NO-BREAK SPACE, EN QUAD, IDEOGRAPHIC SPACE, ...)
Zs == {" ", "U+00A0", "U+2000", "U+3000"}
\* \x{feff}
FEFF == "U+FEFF"
\* the characters the last class of discordLinkRegex names: "'),.:;]
TrailingPunct == {"\"", "'", ")", ",", ".", ":", ";", "]"}

\* [^<\p{Zs}\x{feff}]
LinkBodyChar(c) == c \notin ({"<"} \cup Zs \cup {FEFF})

LinkLastChar_NoPunct(c) == c \notin ({"<"} \cup Zs \cup {FEFF})

\* [^"'),.:;\]\p{Zs}\x{feff}]
LinkLastChar(c) == c \notin (TrailingPunct \cup Zs \cup {FEFF})

HasPrefixAt(s, i, p) == i + Len(p) <= Len(s) /\ Slice(s, i, i + Len(p)) = p

\* https?://
SchemeLen(s, i) ==
    IF HasPrefixAt(s, i, Https) THEN Len(Https)
    ELSE IF HasPrefixAt(s, i, Http) THEN Len(Http)
    ELSE 0

\* the longest run [^<\p{Zs}\x{feff}]* can take from offset j
RECURSIVE BodyRun(_, _)
BodyRun(s, j) ==
    IF j < Len(s) /\ LinkBodyChar(s[j + 1]) THEN 1 + BodyRun(s, j + 1) ELSE 0

\* The end offset (exclusive) of discordLinkRegex's match starting at offset i,
\* or -1: the star is greedy, so the match is the longest body run after which
\* the last class still matches one character.
LinkMatchEnd(s, i) ==
    LET n == SchemeLen(s, i)
        j == i + n
        cands == {m \in 0..BodyRun(s, j) : j + m < Len(s) /\ LinkLastChar(s[j + m + 1])}
    IN  IF n = 0 \/ cands = {} THEN -1 ELSE j + SetMax(cands) + 1

\* discordLinkRegex.FindAllStringIndex(s, -1): the leftmost matches, successive
\* and non-overlapping, each <<start, end>>.
RECURSIVE FindFrom(_, _)
FindFrom(s, i) ==
    IF i >= Len(s) THEN <<>>
    ELSE LET e == LinkMatchEnd(s, i)
         IN  IF e < 0 THEN FindFrom(s, i + 1)
             ELSE <<<<i, e>>>> \o FindFrom(s, e)

FindAllStringIndex(s) == FindFrom(s, 0)

\* the characters discordMarkdownEscaper replaces
EscapeTokens == {"\\", "_", "*", "~", Backtick, "|", "<"}

EscapeChar_NoBackslash(c) == IF c \in (EscapeTokens \ {"\\"}) THEN <<"\\", c>> ELSE <<c>>

EscapeChar(c) == IF c \in EscapeTokens THEN <<"\\", c>> ELSE <<c>>

\* discordMarkdownEscaper.Replace
Replace(s) == Concat([i \in 1..Len(s) |-> EscapeChar(s[i])])

\* the loop of escapeDiscordMarkdown from its k-th match on, and the write after it
RECURSIVE WriteRuns(_, _, _, _)
WriteRuns(s, matches, k, offset) ==
    IF k > Len(matches) THEN Replace(Slice(s, offset, Len(s)))
    ELSE LET start == matches[k][1]
             end == matches[k][2]
         IN  Replace(Slice(s, offset, start)) \o Slice(s, start, end)
                 \o WriteRuns(s, matches, k + 1, end)

escapeDiscordMarkdown_NoLinks(s) == Replace(s)

escapeDiscordMarkdown(s) ==
    LET found == FindAllStringIndex(s)
    IN  IF found = <<>> THEN Replace(s) ELSE WriteRuns(s, found, 1, 0)

\* discordMarkdownUnscaper.ReplaceAllString(s, "$1"): the dot matches any character
\* but a newline
RECURSIVE UnescapeFrom(_, _)
UnescapeFrom(s, i) ==
    IF i >= Len(s) THEN <<>>
    ELSE IF s[i + 1] = "\\" /\ i + 1 < Len(s) /\ s[i + 2] # "\n"
         THEN <<s[i + 2]>> \o UnescapeFrom(s, i + 2)
         ELSE <<s[i + 1]>> \o UnescapeFrom(s, i + 1)

Unescape(s) == UnescapeFrom(s, 0)

HasPrefix(s, p) == HasPrefixAt(s, 0, p)
HasSuffix(s, p) == Len(p) <= Len(s) /\ Slice(s, Len(s) - Len(p), Len(s)) = p

MonospaceWrap_NoPad(s) == <<Backtick, Backtick>> \o s \o <<Backtick, Backtick>>

\* MonospaceConverter after its un-escape: pre, suf and the Sprintf
MonospaceWrap(s) ==
    LET pre == IF HasPrefix(s, <<Backtick>>) THEN <<" ">> ELSE <<>>
        suf == IF HasSuffix(s, <<Backtick>>) THEN <<" ">> ELSE <<>>
    IN  <<Backtick, Backtick>> \o pre \o s \o suf \o <<Backtick, Backtick>>

-----------------------------------------------------------------------------
(* The inbound text converters. *)

Pieces == {Http, Https} \cup {<<c>> : c \in {"a", "_", "<", ".", ")", " ", FEFF, "\\"}}

RECURSIVE PieceTexts(_)
PieceTexts(n) ==
    IF n = 0 THEN {<<>>}
    ELSE LET P == PieceTexts(n - 1) IN P \cup {p \o t : p \in Pieces, t \in P}

RECURSIVE Texts(_, _)
Texts(A, n) ==
    IF n = 0 THEN {<<>>}
    ELSE LET P == Texts(A, n - 1) IN P \cup {<<c>> \o t : c \in A, t \in P}

SpanChars == {Backtick, "\\", "a", "\n"}

TextInputs(pieces, tokens, spanLen) ==
    PieceTexts(pieces) \cup Texts(EscapeTokens, tokens) \cup Texts(SpanChars, spanLen)

\* a nil pointer; what a directory finds has nil |-> FALSE and the fields read
Nil == [nil |-> TRUE]
NoID == ""

IdleText == text = <<>> /\ tpc = "idle" /\ res = <<>> /\ span = <<>> /\ submatches = <<>>
IdleFix == ftext = <<>> /\ fpc = "idle" /\ fixed = <<>>
IdlePill ==
    /\ aliasDir = Nil /\ portalDir = <<>> /\ messageDir = Nil /\ puppetDir = <<>>
    /\ userDir = <<>> /\ displayname = <<>> /\ mxid = <<>> /\ eventID = "" /\ ppc = "idle"
    /\ ret = <<>>

IdleParse == content = Nil /\ hpc = "idle" /\ markup = <<>>
IdleLogin ==
    /\ loggedIn = FALSE /\ DiscordID = "" /\ DiscordID0 = "" /\ lpc = "idle" /\ gpc = "idle"
    /\ qrChan = "idle" /\ doneChan = "idle" /\ qrCodeEvent = "" /\ redacted = FALSE
    /\ user = Nil /\ err = "nil" /\ replies = <<>>

InitText ==
    /\ IdleFix /\ IdlePill /\ IdleParse /\ IdleLogin
    /\ text \in TextInputs(MaxPieces, MaxTokens, MaxSpanLen)
    /\ tpc = "input"
    /\ res = <<>>
    /\ span = <<>>
    /\ submatches = <<>>

\* TextConverter: escapeDiscordMarkdown of a text node
TextConverter ==
    /\ tpc = "input"
    /\ submatches' = FindAllStringIndex(text)
    /\ res' = escapeDiscordMarkdown(text)
    /\ tpc' = "text"
    /\ UNCHANGED <<text, span>>
    /\ UNCHANGED <<fixVars, pillVars, parseVars, loginVars>>

\* MonospaceConverter, its first statement: called with the text of a code span,
\* either as it is or as TextConverter returned it
MonospaceUnescape ==
    /\ tpc \in {"input", "text"}
    /\ span' = IF tpc = "input" THEN text ELSE res
    /\ res' = Unescape(span')
    /\ tpc' = IF tpc = "input" THEN "mono_unescaped_raw" ELSE "mono_unescaped"
    /\ UNCHANGED <<text, submatches>>
    /\ UNCHANGED <<fixVars, pillVars, parseVars, loginVars>>

\* MonospaceConverter, the rest
MonospaceReturn ==
    /\ tpc \in {"mono_unescaped_raw", "mono_unescaped"}
    /\ res' = MonospaceWrap(res)
    /\ tpc' = "mono"
    /\ UNCHANGED <<text, span, submatches>>
    /\ UNCHANGED <<fixVars, pillVars, parseVars, loginVars>>

NextText == TextConverter \/ MonospaceUnescape \/ MonospaceReturn

SpecText == InitText /\ [][NextText]_vars

-----------------------------------------------------------------------------
(* The claims about the inbound text converters, under SpecText. *)

OnlyEscapeTokens(s) == \A i \in 1..Len(s) : s[i] \in EscapeTokens

\* C1: for a text made only of EscapeToken characters, which holds no URL,
\* un-escaping what escapeDiscordMarkdown returned for it (every backslash-X
\* pair becomes X) gives the text back.
RoundTrip_C1 ==
    (tpc = "mono_unescaped" /\ OnlyEscapeTokens(text) /\ submatches = <<>>) => res = text

RoundTrip_C1_Witness ==
    /\ tpc = "mono_unescaped"
    /\ OnlyEscapeTokens(text)
    /\ submatches = <<>>
    /\ Len(text) >= 3
    /\ \E i \in 1..Len(text) : text[i] = "\\"
    /\ Len(span) = 2 * Len(text)

\* whether the p-th character of the text lies in a matched URL span
InSpan(p) == \E k \in 1..Len(submatches) : submatches[k][1] < p /\ p <= submatches[k][2]

\* the text with a backslash before every EscapeToken character outside the spans
EscapedOutsideSpans ==
    Concat([p \in 1..Len(text) |->
        IF ~InSpan(p) /\ text[p] \in EscapeTokens THEN <<"\\", text[p]>> ELSE <<text[p]>>])

\* C2: escapeDiscordMarkdown returns its argument with every matched URL span
\* copied as it is and, outside the spans, a backslash before every EscapeToken
\* character and nothing else changed; the spans are in order and disjoint.
EscapeRuns_C2 ==
    tpc = "text" =>
        /\ res = EscapedOutsideSpans
        /\ \A k \in 1..Len(submatches) :
              /\ 0 <= submatches[k][1] /\ submatches[k][1] < submatches[k][2]
              /\ submatches[k][2] <= Len(text)
              /\ k > 1 => submatches[k - 1][2] <= submatches[k][1]

EscapeRuns_C2_Witness ==
    /\ tpc = "text"
    /\ submatches # <<>>
    /\ \E p, q \in 1..Len(text) :
          /\ InSpan(p) /\ text[p] \in EscapeTokens
          /\ ~InSpan(q) /\ text[q] \in EscapeTokens

\* C3: no matched URL span holds a '<' or a space separator, so every '<' of
\* the result has a backslash before it.
NoAngleInSpan_C3 ==
    tpc = "text" =>
        /\ \A p \in 1..Len(text) : InSpan(p) => text[p] \notin ({"<"} \cup Zs)
        /\ \A q \in 1..Len(res) : res[q] = "<" => (q > 1 /\ res[q - 1] = "\\")

\* C4: no matched URL span ends in one of "'),.:;] or in a space separator.
SpanEnd_C4 ==
    tpc = "text" =>
        \A k \in 1..Len(submatches) : text[submatches[k][2]] \notin (TrailingPunct \cup Zs)

\* a URL directly followed by a full stop, which the span leaves out and the
\* result holds as it is
SpanEnd_C4_Witness ==
    /\ tpc = "text"
    /\ \E k \in 1..Len(submatches) :
          /\ submatches[k][2] < Len(text)
          /\ text[submatches[k][2] + 1] = "."
          /\ ~InSpan(submatches[k][2] + 1)
    /\ res[Len(res)] = "."

\* the first backslash of the run of backslashes the i-th character of s ends
RunStart(s, i) ==
    CHOOSE a \in 1..i :
        /\ \A j \in a..i : s[j] = "\\"
        /\ a = 1 \/ s[a - 1] # "\\"

\* the backslashes of s that escape a character: the odd ones of a run of
\* backslashes, when a character that is no line feed follows
Escaping(s) ==
    {i \in 1..Len(s) :
        /\ s[i] = "\\"
        /\ (i - RunStart(s, i)) % 2 = 0
        /\ i < Len(s)
        /\ s[i + 1] # "\n"}

Without(s, R) ==
    LET idx == SelectSeq([i \in 1..Len(s) |-> i], LAMBDA i : i \notin R)
    IN  [k \in 1..Len(idx) |-> s[idx[k]]]

-----------------------------------------------------------------------------
(* renderDiscordMarkdown's escapeFixer pass. *)

\* whether escapeFixer, \\(__[^_]|\*\*[^*]), matches at offset i
FixerMatchAt(s, i) ==
    /\ i + 4 <= Len(s)
    /\ s[i + 1] = "\\"
    /\ \/ s[i + 2] = "_" /\ s[i + 3] = "_" /\ s[i + 4] # "_"
       \/ s[i + 2] = "*" /\ s[i + 3] = "*" /\ s[i + 4] # "*"

FixMatch_AfterPair(m) == Slice(m, 0, 3) \o <<"\\">> \o Slice(m, 3, Len(m))

\* the replacement function: s[:2] + `\` + s[2:]
FixMatch(m) == Slice(m, 0, 2) \o <<"\\">> \o Slice(m, 2, Len(m))

\* escapeFixer.ReplaceAllStringFunc: the matches left to right, not overlapping
RECURSIVE FixFrom(_, _)
FixFrom(s, i) ==
    IF i >= Len(s) THEN <<>>
    ELSE IF FixerMatchAt(s, i) THEN FixMatch(Slice(s, i, i + 4)) \o FixFrom(s, i + 4)
    ELSE <<s[i + 1]>> \o FixFrom(s, i + 1)

FixerChars == {"\\", "_", "*", "a"}

InitFix ==
    /\ IdleText /\ IdlePill /\ IdleParse /\ IdleLogin
    /\ ftext \in Texts(FixerChars, MaxFixLen)
    /\ fpc = "input"
    /\ fixed = <<>>

\* renderDiscordMarkdown up to the call of the markdown renderer
EscapeFixerPass ==
    /\ fpc = "input"
    /\ fixed' = FixFrom(ftext, 0)
    /\ fpc' = "fixed"
    /\ UNCHANGED <<ftext>>
    /\ UNCHANGED <<textVars, pillVars, parseVars, loginVars>>

NextFix == EscapeFixerPass

SpecFix == InitFix /\ [][NextFix]_vars

-----------------------------------------------------------------------------
(* The claim about the escapeFixer pass, under SpecFix. *)

\* an occurrence of the pattern whose backslash is the i-th character of ftext
Occurs(i) == i >= 1 /\ FixerMatchAt(ftext, i - 1)

\* Two occurrences overlap only when one starts at the last character of the
\* other; of a chain of such occurrences the scan rewrites every second one.
RECURSIVE Rewritten(_)
Rewritten(i) == Occurs(i) /\ ~Rewritten(i - 3)

\* where the inserted backslashes are in the result, when the backslash of an
\* occurrence at i (one of the set Occ) goes d characters after the i-th
GuardsAt(Occ, d) == {i + d + Cardinality({j \in Occ : j < i}) : i \in Occ}

Delims == {"_", "*"}

\* C7 as stated: every occurrence gets its additional backslash after the two
\* delimiters, before the character that follows them.
FixerAfterPair_C7 ==
    fpc = "fixed" =>
        LET Occ == {i \in 1..Len(ftext) : Occurs(i)}
            G == GuardsAt(Occ, 3)
        IN  /\ Len(fixed) = Len(ftext) + Cardinality(G)
            /\ \A g \in G :
                  /\ fixed[g] = "\\"
                  /\ fixed[g - 1] \in Delims /\ fixed[g - 2] = fixed[g - 1]
                  /\ fixed[g - 3] = "\\"
            /\ Without(fixed, G) = ftext

\* C7 as amended: every occurrence the left-to-right, non-overlapping scan
\* finds gets one additional backslash between its two delimiters; without the
\* inserted backslashes the result is the argument.
FixerBetweenPair_C7 ==
    fpc = "fixed" =>
        LET Occ == {i \in 1..Len(ftext) : Rewritten(i)}
            G == GuardsAt(Occ, 2)
        IN  /\ Len(fixed) = Len(ftext) + Cardinality(G)
            /\ \A g \in G :
                  /\ fixed[g] = "\\"
                  /\ fixed[g - 1] \in Delims /\ fixed[g + 1] = fixed[g - 1]
                  /\ fixed[g - 2] = "\\"
                  /\ fixed[g + 2] # fixed[g + 1]
            /\ Without(fixed, G) = ftext

\* an occurrence of each delimiter rewritten, with text before and between
FixerBetweenPair_C7_Witness ==
    /\ fpc = "fixed"
    /\ Len(fixed) = Len(ftext) + 1
    /\ \E i \in 2..Len(ftext) : Rewritten(i) /\ ftext[i + 1] = "*"

\* an occurrence that starts at the last character of a rewritten one
FixerOverlap_C7_Witness ==
    /\ fpc = "fixed"
    /\ \E i \in 1..Len(ftext) : Occurs(i) /\ ~Rewritten(i)

-----------------------------------------------------------------------------
(* pillConverter.  A returned string is the sequence of the parts Sprintf   *)
(* joins; the directories are the bridge's, read and never written.         *)


Alias == <<"#", "a">>
RoomA == <<"!", "a">>
RoomB == <<"!", "b">>
PuppetMXID == <<"@", "p">>
UserMXID == <<"@", "u">>
KnownEvent == "$e"

\* user.bridge.Bot.ResolveAlias(id.RoomAlias(mxid))
ResolveAlias(alias) ==
    IF alias = Alias THEN aliasDir ELSE [err |-> TRUE, RoomID |-> <<>>]

\* user.bridge.GetPortalByMXID(id.RoomID(mxid))
GetPortalByMXID(room) == IF room \in DOMAIN portalDir THEN portalDir[room] ELSE Nil

\* user.bridge.DB.Message.GetByMXID(portal.Key, id.EventID(eventID))
GetByMXID(key, ev) ==
    IF ev = KnownEvent /\ key = "c1" THEN messageDir ELSE Nil

\* user.bridge.ParsePuppetMXID(id.UserID(mxid))
ParsePuppetMXID(userID) ==
    IF userID \in DOMAIN puppetDir /\ puppetDir[userID] # NoID
    THEN [ok |-> TRUE, parsedID |-> puppetDir[userID]]
    ELSE [ok |-> FALSE, parsedID |-> ""]

\* user.bridge.GetUserByMXID(id.UserID(mxid))
GetUserByMXID(userID) == IF userID \in DOMAIN userDir THEN userDir[userID] ELSE Nil

Returned(s) == [panic |-> FALSE, value |-> s]
\* mxid[0] of an empty string: index out of range
Panicked == [panic |-> TRUE, value |-> <<>>]

GuildSegment_Raw(portal) == portal.GuildID

\* guildID := portal.GuildID; if guildID == "" { guildID = "@me" }
GuildSegment(portal) == IF portal.GuildID = "" THEN "@me" ELSE portal.GuildID

\* pillConverter from `if mxid[0] == '!'` on
PillByID(name, id, ev) ==
    IF Len(id) = 0 THEN Panicked
    ELSE IF id[1] = "!" THEN
        LET portal == GetPortalByMXID(id)
        IN  IF portal.nil THEN Returned(name)
            ELSE IF ev = "" THEN Returned(<<"<#", portal.Key.ChannelID, ">">>)
            ELSE LET msg == GetByMXID(portal.Key.ChannelID, ev)
                 IN  IF msg.nil THEN Returned(name)
                     ELSE Returned(<<"https://discord.com/channels/", GuildSegment(portal),
                                     "/", msg.DiscordProtoChannelID, "/", msg.DiscordID>>)
    ELSE IF id[1] = "@" THEN
        LET parsed == ParsePuppetMXID(id)
            mentionedUser == GetUserByMXID(id)
        IN  IF parsed.ok THEN Returned(<<"<@", parsed.parsedID, ">">>)
            ELSE IF ~mentionedUser.nil /\ mentionedUser.DiscordID # ""
                 THEN Returned(<<"<@", mentionedUser.DiscordID, ">">>)
            ELSE Returned(name)
    ELSE Returned(name)

\* pillConverter from `if mxid[0] == '#'` on
PillByReference(name, id, ev) ==
    IF Len(id) = 0 THEN Panicked
    ELSE IF id[1] = "#" THEN
        LET alias == ResolveAlias(id)
        IN  IF alias.err THEN Returned(name) ELSE PillByID(name, alias.RoomID, ev)
    ELSE PillByID(name, id, ev)

pillConverter_NoLenCheck(name, id, ev) == PillByReference(name, id, ev)

pillConverter(name, id, ev) ==
    IF Len(id) = 0 THEN Returned(name) ELSE PillByReference(name, id, ev)

Portals(channel) ==
    {Nil} \cup {[nil |-> FALSE, Key |-> [ChannelID |-> channel], GuildID |-> g] : g \in {"", "g1"}}

\* The directories are what the bridge holds when a message is converted: an
\* alias resolves to a room id (which starts with '!') or not at all.
InitPill ==
    /\ IdleText /\ IdleFix /\ IdleParse /\ IdleLogin
    /\ aliasDir \in {[err |-> TRUE, RoomID |-> <<>>]} \cup
          {[err |-> FALSE, RoomID |-> r] : r \in {RoomA, RoomB}}
    /\ portalDir \in {[r \in {RoomA, RoomB} |-> IF r = RoomA THEN a ELSE b] :
                          a \in Portals("c1"), b \in {Nil, [nil |-> FALSE, Key |-> [ChannelID |-> "c2"], GuildID |-> "g1"]}}
    /\ messageDir \in {Nil} \cup
          {[nil |-> FALSE, DiscordProtoChannelID |-> c, DiscordID |-> "m1"] : c \in {"c1", "t1"}}
    /\ puppetDir \in {[u \in {PuppetMXID} |-> d] : d \in {NoID, "d9"}}
    /\ userDir \in {[u \in {UserMXID} |-> d] : d \in {Nil, [nil |-> FALSE, DiscordID |-> ""], [nil |-> FALSE, DiscordID |-> "d1"]}}
    /\ displayname = <<>> /\ mxid = <<>> /\ eventID = ""
    /\ ppc = "call"
    /\ ret = <<>>

PillConverter ==
    /\ ppc = "call"
    /\ displayname' \in {<<"R", "m">>}
    /\ mxid' \in {<<>>, Alias, <<"#", "z">>, RoomA, RoomB, <<"!", "z">>, PuppetMXID, UserMXID,
                  <<"@", "z">>, <<"$", "x">>}
    /\ eventID' \in {"", KnownEvent, "$z"}
    /\ ret' = pillConverter(displayname', mxid', eventID')
    /\ ppc' = "returned"
    /\ UNCHANGED <<aliasDir, portalDir, messageDir, puppetDir, userDir>>
    /\ UNCHANGED <<textVars, fixVars, parseVars, loginVars>>

NextPill == PillConverter

SpecPill == InitPill /\ [][NextPill]_vars

-----------------------------------------------------------------------------
(* The claims about pillConverter, under SpecPill. *)

IsToken(s) == Len(s) > 0 /\ s[1] \in {"<#", "<@", "https://discord.com/channels/"}

Permalink_C6 ==
    (/\ ppc = "returned"
     /\ Len(mxid) > 0 /\ mxid[1] = "!"
     /\ ~GetPortalByMXID(mxid).nil
     /\ eventID # ""
     /\ ~GetByMXID(GetPortalByMXID(mxid).Key.ChannelID, eventID).nil) =>
        LET server == portalDir[mxid].GuildID
            msg == messageDir
        IN  /\ ret.value = <<"https://discord.com/channels/",
                             IF server = "" THEN "@me" ELSE server,
                             "/", msg.DiscordProtoChannelID, "/", msg.DiscordID>>
            /\ ret.value[2] # ""

Permalink_C6_Witness ==
    /\ ppc = "returned"
    /\ mxid = RoomA /\ eventID = KnownEvent
    /\ ~portalDir[RoomA].nil /\ portalDir[RoomA].GuildID = ""
    /\ ~messageDir.nil
    /\ ret.value[2] = "@me"

-----------------------------------------------------------------------------
(* Portal.parseMatrixHTML.  A formatted body is the sequence of the nodes    *)
(* its HTML holds, each with the text under it; matrixHTMLParser.Parse       *)
(* converts the text of a node with TextConverter and hands the result to    *)
(* the converter of the node's tag.                                          *)

FormatHTML == "org.matrix.custom.html"

\* ItalicConverter: Sprintf("*%s*", s)
ItalicConverter(s) == <<"*">> \o s \o <<"*">>

\* UnderlineConverter: Sprintf("__%s__", s)
UnderlineConverter(s) == <<"_", "_">> \o s \o <<"_", "_">>

\* MonospaceConverter
MonospaceConverter(s) == MonospaceWrap(Unescape(s))

\* SpoilerConverter
SpoilerConverter(s, reason) ==
    IF reason # <<>> THEN <<"(">> \o reason \o <<")", " ", "|", "|">> \o s \o <<"|", "|">>
    ELSE <<"|", "|">> \o s \o <<"|", "|">>

ConvertNode(node) ==
    LET s == escapeDiscordMarkdown(node.text)
    IN  CASE node.tag = "text" -> s
          [] node.tag = "em" -> ItalicConverter(s)
          [] node.tag = "u" -> UnderlineConverter(s)
          [] node.tag = "code" -> MonospaceConverter(s)
          [] node.tag = "spoiler" -> SpoilerConverter(s, node.reason)

\* matrixHTMLParser.Parse(content.FormattedBody, ctx)
Parse(nodes) == Concat([i \in 1..Len(nodes) |-> ConvertNode(nodes[i])])

parseMatrixHTML_NoFormatCheck(c) ==
    IF Len(c.FormattedBody) > 0 THEN Parse(c.FormattedBody)
    ELSE escapeDiscordMarkdown(c.Body)

parseMatrixHTML(c) ==
    IF c.Format = FormatHTML /\ Len(c.FormattedBody) > 0 THEN Parse(c.FormattedBody)
    ELSE escapeDiscordMarkdown(c.Body)

NodeTexts == {<<"a">>, <<"_">>, <<Backtick>>}

Nodes ==
    {[tag |-> g, text |-> s, reason |-> <<>>] : g \in {"text", "em", "u", "code", "spoiler"},
                                                 s \in NodeTexts}
    \cup {[tag |-> "spoiler", text |-> s, reason |-> <<"r">>] : s \in NodeTexts}

Bodies == {<<>>, <<"a">>, <<"_">>, Http \o <<"_">>}

InitParse ==
    /\ IdleText /\ IdleFix /\ IdlePill /\ IdleLogin
    /\ content \in {[nil |-> FALSE, Format |-> f, FormattedBody |-> fb, Body |-> b] :
                        f \in {"", FormatHTML}, fb \in Texts(Nodes, MaxNodes), b \in Bodies}
    /\ hpc = "call"
    /\ markup = <<>>

ParseMatrixHTML ==
    /\ hpc = "call"
    /\ markup' = parseMatrixHTML(content)
    /\ hpc' = "returned"
    /\ UNCHANGED <<content>>
    /\ UNCHANGED <<textVars, fixVars, pillVars, loginVars>>

NextParse == ParseMatrixHTML

SpecParse == InitParse /\ [][NextParse]_vars

-----------------------------------------------------------------------------
(* The claim about parseMatrixHTML, under SpecParse. *)

\* C9 as stated: the walker's conversion of the formatted body whenever there
\* is one, escapeDiscordMarkdown of the body whenever there is none.
ParseWhenFormatted_C9 ==
    hpc = "returned" =>
        /\ content.FormattedBody # <<>> => markup = Parse(content.FormattedBody)
        /\ content.FormattedBody = <<>> => markup = escapeDiscordMarkdown(content.Body)

\* C9 as amended: the walker's conversion when the format is HTML and there is
\* a formatted body; escapeDiscordMarkdown of the body when there is no
\* formatted body, and also when there is one but the format is not HTML.
ParseWhenHTML_C9 ==
    hpc = "returned" =>
        /\ (content.Format = FormatHTML /\ content.FormattedBody # <<>>)
              => markup = Parse(content.FormattedBody)
        /\ content.FormattedBody = <<>> => markup = escapeDiscordMarkdown(content.Body)
        /\ (content.Format # FormatHTML /\ content.FormattedBody # <<>>)
              => markup = escapeDiscordMarkdown(content.Body)

\* a formatted body of another format, whose conversion differs from the body's
ParseWhenHTML_C9_Witness ==
    /\ hpc = "returned"
    /\ content.Format # FormatHTML
    /\ Len(content.FormattedBody) = 2
    /\ content.Body = Http \o <<"_">>
    /\ markup = content.Body
    /\ markup # Parse(content.FormattedBody)

-----------------------------------------------------------------------------
(* The login command, fnLogin.  Its steps end where it blocks: at           *)
(* client.Dial, at <-doneChan, and at its return.  What remoteauth, the      *)
(* homeserver and User.Login answer is the environment's choice.             *)

ReplyAlready == "You're already logged in"
ReplyPrepare == "Failed to prepare login: %v"
ReplyDial == "Error connecting to login websocket: %v"
ReplyLogin == "Error logging in: %v"
ReplyConnect == "Error connecting after login: %v"
ReplySuccess == "Successfully logged in as %s#%s"

ErrorReplies == {ReplyAlready, ReplyPrepare, ReplyDial, ReplyLogin, ReplyConnect}

InitLogin ==
    /\ IdleText /\ IdleFix /\ IdlePill /\ IdleParse
    /\ loggedIn \in BOOLEAN
    /\ DiscordID0 \in {"", "d0"}
    /\ DiscordID = DiscordID0
    /\ lpc = "start" /\ gpc = "none"
    /\ qrChan = "none" /\ doneChan = "none"
    /\ qrCodeEvent = "" /\ redacted = FALSE
    /\ user = Nil /\ err = "nil" /\ replies = <<>>

\* lines 75-95: the IsLoggedIn check, remoteauth.New, the channels, the goroutine
LoginStart ==
    /\ lpc = "start"
    /\ \/ /\ loggedIn
          /\ replies' = Append(replies, ReplyAlready)
          /\ lpc' = "returned"
          /\ UNCHANGED <<err, qrChan, doneChan, gpc>>
       \/ /\ ~loggedIn
          /\ err' = "prepare"
          /\ replies' = Append(replies, ReplyPrepare)
          /\ lpc' = "returned"
          /\ UNCHANGED <<qrChan, doneChan, gpc>>
       \/ /\ ~loggedIn
          /\ qrChan' = "open" /\ doneChan' = "open"
          /\ gpc' = "receive"
          /\ lpc' = "dial"
          /\ UNCHANGED <<err, replies>>
    /\ UNCHANGED <<loggedIn, DiscordID, DiscordID0, qrCodeEvent, redacted, user>>
    /\ UNCHANGED <<textVars, fixVars, pillVars, parseVars>>

\* lines 99-104: client.Dial
LoginDial ==
    /\ lpc = "dial"
    /\ \/ /\ err' = "dial"
          /\ qrChan' = "closed" /\ doneChan' = "closed"
          /\ replies' = Append(replies, ReplyDial)
          /\ lpc' = "returned"
       \/ /\ lpc' = "wait"
          /\ UNCHANGED <<err, qrChan, doneChan, replies>>
    /\ UNCHANGED <<loggedIn, DiscordID, DiscordID0, gpc, qrCodeEvent, redacted, user>>
    /\ UNCHANGED <<textVars, fixVars, pillVars, parseVars>>

\* line 92: the goroutine receives the code the client sends on qrChan, or the
\* zero value once qrChan is closed
QRReceive ==
    /\ gpc = "receive"
    /\ \/ qrChan = "closed"
       \/ qrChan = "open" /\ lpc = "wait" /\ doneChan = "open"
    /\ gpc' = "send"
    /\ UNCHANGED <<loggedIn, DiscordID, DiscordID0, lpc, qrChan, doneChan, qrCodeEvent, redacted,
                   user, err, replies>>
    /\ UNCHANGED <<textVars, fixVars, pillVars, parseVars>>

\* lines 93-94: sendQRCode answers the event id, or "" when the upload or the
\* send failed; the goroutine stores it
QRSend ==
    /\ gpc = "send"
    /\ qrCodeEvent' \in {"", "$qr"}
    /\ gpc' = "done"
    /\ UNCHANGED <<loggedIn, DiscordID, DiscordID0, lpc, qrChan, doneChan, redacted, user, err,
                   replies>>
    /\ UNCHANGED <<textVars, fixVars, pillVars, parseVars>>

\* the remote auth client is done, with a user or an error
ClientDone ==
    /\ lpc = "wait" /\ doneChan = "open"
    /\ doneChan' = "closed"
    /\ UNCHANGED <<loggedIn, DiscordID, DiscordID0, lpc, gpc, qrChan, qrCodeEvent, redacted, user,
                   err, replies>>
    /\ UNCHANGED <<textVars, fixVars, pillVars, parseVars>>

\* lines 106-110: <-doneChan, and the redaction of the QR code event
LoginAwait ==
    /\ lpc = "wait" /\ doneChan = "closed"
    /\ redacted' = (qrCodeEvent # "")
    /\ lpc' = "result"
    /\ UNCHANGED <<loggedIn, DiscordID, DiscordID0, gpc, qrChan, doneChan, qrCodeEvent, user, err,
                   replies>>
    /\ UNCHANGED <<textVars, fixVars, pillVars, parseVars>>

Users == {[nil |-> FALSE, Token |-> k, UserID |-> u] : k \in {"", "tok"}, u \in {"", "d1"}}

\* lines 118-122: the store of the Discord id and the last reply
StoreAndReply(u, said) ==
    /\ DiscordID' = u.UserID
    /\ replies' = said \o <<ReplySuccess>>

\* lines 112-122: client.Result, User.Login, the store and the replies
LoginFinish ==
    /\ lpc = "result"
    /\ \E u \in Users, resultErr \in BOOLEAN, loginErr \in BOOLEAN :
          /\ user' = u
          /\ \/ /\ resultErr \/ Len(u.Token) = 0
                /\ err' = IF resultErr THEN "result" ELSE "nil"
                /\ UNCHANGED loggedIn
                /\ StoreAndReply(u, Append(replies, ReplyLogin))
             \/ /\ ~resultErr /\ Len(u.Token) # 0
                /\ loginErr
                /\ err' = "login"
                /\ UNCHANGED loggedIn
                /\ StoreAndReply(u, Append(replies, ReplyConnect))
             \/ /\ ~resultErr /\ Len(u.Token) # 0
                /\ ~loginErr
                /\ err' = "nil"
                /\ loggedIn' = TRUE
                /\ StoreAndReply(u, replies)
    /\ lpc' = "returned"
    /\ UNCHANGED <<DiscordID0, gpc, qrChan, doneChan, qrCodeEvent, redacted>>
    /\ UNCHANGED <<textVars, fixVars, pillVars, parseVars>>

NextLogin ==
    LoginStart \/ LoginDial \/ QRReceive \/ QRSend \/ ClientDone \/ LoginAwait \/ LoginFinish

SpecLogin == InitLogin /\ [][NextLogin]_vars

-----------------------------------------------------------------------------
(* The claim about fnLogin, under SpecLogin. *)

Said(r) == \E i \in 1..Len(replies) : replies[i] = r

\* C10: the success reply is sent and the stored Discord id changes only when
\* the remote auth ended without error with a token and User.Login succeeded;
\* after an error reply no success reply follows and the stored Discord id is
\* what it was.
LoginOnlyOnSuccess_C10 ==
    /\ Said(ReplySuccess) => (err = "nil" /\ ~user.nil /\ Len(user.Token) # 0 /\ loggedIn)
    /\ DiscordID # DiscordID0 => (err = "nil" /\ ~user.nil /\ Len(user.Token) # 0 /\ loggedIn)
    /\ \A i \in 1..Len(replies) :
          replies[i] \in ErrorReplies =>
              /\ \A j \in (i + 1)..Len(replies) : replies[j] # ReplySuccess
              /\ DiscordID = DiscordID0

====
